---- MODULE Spec2Model ----
(***************************************************************************)
(* Authomato (v0.0.3): the OAuth session broker of src/unnamed/part_001.   *)
(*                                                                         *)
(* Every HTTP request is served by its own goroutine.  A request is a      *)
(* process p of Procs; pc[p] is the statement the goroutine is about to    *)
(* run.  The session table oauthSessions.m and the OAuthSession objects it *)
(* points to are shared by all goroutines.                                 *)
(***************************************************************************)
EXTENDS Integers, Sequences, FiniteSets, TLC

\* ------------------------------------------------------------------ bounds
\* number of HTTP requests served in a run of each kind of traffic
FlowRequests == 3
StoreRequests == 3
EdgeRequests == 2
\* number of long polls (wait=true) sent for one session in long-poll traffic
LongPollers == 2

\* purge traffic: the number of requests served at a time, and of sessions
\* ever created
PurgeRequests == 2
PurgeSessions == 2

\* eviction traffic: the number of requests served
EvictRequests == 3

\* long-poll traffic: one start, one callback and the long polls
LongPollRequests == LongPollers + 2

Largest(S) == CHOOSE x \in S : \A y \in S : y <= x

Procs == 1..Largest({FlowRequests, StoreRequests, EdgeRequests, LongPollRequests,
                     PurgeRequests, EvictRequests})

\* ---------------------------------------------------------- program constants
\* Purge: const maxAge = 3600 // seconds
maxAge == 3600

\* handleOAuthPoll: int64(^uint64(0) >> 1).  The checker's integers are 32
\* bits wide, so the largest of them stands for the largest int64; no clock
\* difference of the model comes near either.
MaxInt64 == 2147483647

\* ------------------------------------------------------------- input domains
\* the session ids randomString draws; two of them make collisions happen
Ids == {"a", "b"}
\* the sid parameter of /oauth/callback and /oauth/poll
SidParams == Ids \cup {""}
\* oauthConsumers holds one application
Consumers == {"demo"}
\* the app parameter of /oauth/start
AppParams == {"", "demo", "nope"}
\* the oauth_verifier parameter of /oauth/callback
VerifierParams == {"", "abc"}
\* the wait parameter of /oauth/poll, as its characters
WaitTrue == <<"t", "r", "u", "e">>
WaitParams == { <<>>, WaitTrue, <<"0">>, <<"1">>, <<"-", "1">>, <<"x">> }
\* instants (Unix seconds) at which the clock is read
Times == {0, 1, maxAge, maxAge + 1}

\* makeOAuthSession: make(chan bool, 1)
ChannelCapacity == 1

\* nil pointers and nil errors
NilSession == 0
NilToken == <<>>
NilError == <<>>

\* what the protocol client (mrjones/oauth) can answer
RequestTokens == {"rtok"}
AccessTokens == { <<"tok", "sec">> }
UpstreamErrors == {"denied"}

\* The traffic of a run: how many requests the clients send and what they
\* put in them.  Every run serves one kind of traffic.
\*   flow:  one application driving one session id through start, callback
\*          and poll;
\*   store: starts, callbacks and polls on two ids while time passes and
\*          Purge runs;
\*   edge:  any requests whatsoever;
\*   long poll: the client of the README: a start, its callback with a verifier,
\*          and long polls (wait=true) for the session.
FlowTraffic ==
    [name |-> "flow", requests |-> FlowRequests, ids |-> {"a"}, apps |-> {"demo"},
     sids |-> {"a"}, verifiers |-> VerifierParams, waits |-> { <<>>, WaitTrue },
     purge |-> {FALSE}, times |-> {0, 1}]
StoreTraffic ==
    [name |-> "store", requests |-> StoreRequests, ids |-> Ids, apps |-> {"demo"},
     sids |-> {"a"}, verifiers |-> {"abc"}, waits |-> { <<>>, WaitTrue },
     purge |-> BOOLEAN, times |-> Times]
EdgeTraffic ==
    [name |-> "edge", requests |-> EdgeRequests, ids |-> Ids, apps |-> AppParams,
     sids |-> SidParams, verifiers |-> VerifierParams, waits |-> WaitParams,
     purge |-> BOOLEAN, times |-> Times]
LongPollTraffic ==
    [name |-> "longpoll", requests |-> LongPollRequests, ids |-> {"a"}, apps |-> {"demo"},
     sids |-> {"a"}, verifiers |-> {"abc"}, waits |-> { WaitTrue },
     purge |-> {FALSE}, times |-> {0}]
\*   purge: starts and polls without wait that keep arriving for as long as
\*          the server runs, an hour passing at some point
PurgeTraffic ==
    [name |-> "purge", requests |-> PurgeRequests, ids |-> Ids, apps |-> {"demo"},
     sids |-> {"a"}, verifiers |-> {"abc"}, waits |-> { <<>> },
     purge |-> BOOLEAN, times |-> {maxAge + 1}]
\*   evict: a start, long polls and callbacks for its session, an hour
\*          passing at some point and Purge running before some of them
EvictTraffic ==
    [name |-> "evict", requests |-> EvictRequests, ids |-> {"a"}, apps |-> {"demo"},
     sids |-> {"a"}, verifiers |-> {"abc"}, waits |-> { WaitTrue },
     purge |-> BOOLEAN, times |-> {maxAge}]
Traffics == {FlowTraffic, StoreTraffic, EdgeTraffic}

VARIABLES
    traffic,    \* the traffic of this run
    now,        \* the clock, time.Now().Unix()
    m,          \* oauthSessions.m: session id -> pointer (NilSession for the placeholder)
    heap,       \* the OAuthSession objects ever allocated, indexed by pointer
    Channel,    \* Channel[h]: number of signals buffered in heap[h].Channel (capacity 1)
    pc,         \* per request: the statement its goroutine is at
    req,        \* per request: the HTTP request
    loc,        \* per request: the handler's local variables
    resp,       \* per request: the HTTP response written
    prior,      \* per request: the requests for the same sid that had ended when it arrived
    exited      \* the process was ended by a runtime fatal error

vars == <<traffic, now, m, heap, Channel, pc, req, loc, resp, prior, exited>>

\* ---------------------------------------------------------- pure functions


DigitChars == {"0", "1", "2", "3", "4", "5", "6", "7", "8", "9"}

DigitVal(c) ==
    CASE c = "0" -> 0 [] c = "1" -> 1 [] c = "2" -> 2 [] c = "3" -> 3 [] c = "4" -> 4
      [] c = "5" -> 5 [] c = "6" -> 6 [] c = "7" -> 7 [] c = "8" -> 8 [] c = "9" -> 9

RECURSIVE DecimalValue(_, _)
DecimalValue(digits, acc) ==
    IF Len(digits) = 0 THEN acc
    ELSE DecimalValue(Tail(digits), acc * 10 + DigitVal(Head(digits)))

\* strconv.Atoi: an optional sign, then at least one decimal digit
Atoi(s) ==
    LET signed == Len(s) > 0 /\ s[1] \in {"+", "-"}
        digits == IF signed THEN Tail(s) ELSE s
        bad    == Len(digits) = 0 \/ \E i \in 1..Len(digits) : digits[i] \notin DigitChars
    IN  IF bad THEN [err |-> TRUE, val |-> 0]
        ELSE [err |-> FALSE,
              val |-> IF signed /\ s[1] = "-" THEN 0 - DecimalValue(digits, 0)
                      ELSE DecimalValue(digits, 0)]

\* PollWaitTime with the test `waitTime < 0` left out
PollWaitTimeUnsigned(wait) ==
    IF Len(wait) = 0 THEN [invalid |-> FALSE, waitTime |-> 0]
    ELSE IF wait = WaitTrue THEN [invalid |-> FALSE, waitTime |-> MaxInt64]
    ELSE LET inner == Atoi(wait)
         IN  IF inner.err THEN [invalid |-> TRUE, waitTime |-> 0]
             ELSE [invalid |-> FALSE, waitTime |-> 0]

\* PollWaitTime with the shift of `^uint64(0) >> 1` left out: int64(^uint64(0))
\* is -1
PollWaitTimeAllOnes(wait) ==
    IF Len(wait) = 0 THEN [invalid |-> FALSE, waitTime |-> 0]
    ELSE IF wait = WaitTrue THEN [invalid |-> FALSE, waitTime |-> 0 - 1]
    ELSE LET inner == Atoi(wait)
         IN  IF inner.err \/ inner.val < 0 THEN [invalid |-> TRUE, waitTime |-> 0]
             ELSE [invalid |-> FALSE, waitTime |-> 0]

\* handleOAuthPoll, "determine how we are to wait": the value of the handler's
\* waitTime variable when the polling loop starts, or the 400 rejection.
\* In the last branch `waitTime, err := strconv.Atoi(wait)` declares a second
\* waitTime that lives in that block only; the handler's own waitTime keeps
\* its zero value.
PollWaitTime(wait) ==
    IF Len(wait) = 0 THEN [invalid |-> FALSE, waitTime |-> 0]
    ELSE IF wait = WaitTrue THEN [invalid |-> FALSE, waitTime |-> MaxInt64]
    ELSE LET inner == Atoi(wait)
         IN  IF inner.err \/ inner.val < 0 THEN [invalid |-> TRUE, waitTime |-> 0]
             ELSE [invalid |-> FALSE, waitTime |-> 0]

\* WaitExceeded with > for >=
WaitExceededStrictly(t, start, waitTime) == t - start > waitTime

\* handleOAuthPoll: `now - start >= waitTime`, the wait time was exceeded
WaitExceeded(t, start, waitTime) == t - start >= waitTime

\* makeOAuthSession without `Id: sid`
makeOAuthSessionNoId(sid, consumer, requestToken, t) ==
    [Id |-> "", StartedAt |-> t, UpdatedAt |-> t, Consumer |-> consumer,
     RequestToken |-> requestToken, AccessToken |-> NilToken, Error |-> NilError]

\* makeOAuthSession (the Channel is the variable Channel)
makeOAuthSession(sid, consumer, requestToken, t) ==
    [Id |-> sid, StartedAt |-> t, UpdatedAt |-> t, Consumer |-> consumer,
     RequestToken |-> requestToken, AccessToken |-> NilToken, Error |-> NilError]

\* OAuthSession.SetAccessToken, the assignments to the receiver s
SetAccessToken(s, accessToken, t) ==
    [s EXCEPT !.AccessToken = accessToken, !.Error = NilError, !.UpdatedAt = t]

\* OAuthSession.SetError, the assignments to the receiver s
SetError(s, error, t) ==
    IF error # NilError THEN [s EXCEPT !.Error = error, !.UpdatedAt = t] ELSE s

\* SetError sends the completion signal only for a non-nil error
SetErrorSignals(error) == error # NilError

\* ValueReceiver for setters declared on *OAuthSession: the caller's object
\* holds what the setter assigned
PointerReceiver(object, receiver) == receiver

\* The setters are declared on OAuthSession, not *OAuthSession: the receiver
\* is a copy of the object the caller points to.  What the caller's object
\* holds after the call: the object as it was.
ValueReceiver(object, receiver) == object

\* ConsumerKnown with `ok` not looked at
ConsumerKnownAlways(name) == TRUE

\* handleOAuthStart: `consumer, ok := oauthConsumers[name]`, the value of ok
ConsumerKnown(name) == name \in Consumers

\* Get with the key's presence not looked at, as `session := s.m[k]` alone
GetUnchecked(k) == [v |-> IF k \in DOMAIN m THEN m[k] ELSE NilSession, ok |-> TRUE]

\* OAuthSessions.Get
Get(k) == [v |-> IF k \in DOMAIN m THEN m[k] ELSE NilSession, ok |-> k \in DOMAIN m]

\* OAuthSessions.Add, the test `_, ok := s.m[k]; ok`
AddExists(k) == k \in DOMAIN m

\* a map with k set to v (s.m[k] = v)
MapSet(map, k, v) == [x \in DOMAIN map \cup {k} |-> IF x = k THEN v ELSE map[x]]

\* a map with the keys ks deleted (delete(s.m, k) for every stale k)
MapDelete(map, ks) == [x \in DOMAIN map \ ks |-> map[x]]

\* OAuthSessions.Purge: `now.UTC().Unix() - v.UpdatedAt.UTC().Unix() >= maxAge`
IsStale(t, updatedAt) == t - updatedAt >= maxAge

\* OAuthSessions.Purge, first loop: the keys appended to stale
StaleKeys(t) == {k \in DOMAIN m : IsStale(t, heap[m[k]].UpdatedAt)}

\* OAuthSessions.Purge, first loop: v.UpdatedAt of a nil v
PurgeDereferencesNil == \E k \in DOMAIN m : m[k] = NilSession

\* ------------------------------------------------------------ the state machine

NoRequest == [kind |-> "none", app |-> "", sid |-> "", verifier |-> "", wait |-> <<>>]
NoLocals  == [sid |-> "", session |-> NilSession, waitTime |-> 0, start |-> 0,
              stale |-> {}, now |-> 0, accessToken |-> NilToken, err |-> NilError, status |-> 0]
NoResponse == [status |-> 0, body |-> <<>>]

\* makeOAuthSessions(): an empty table; no request has arrived
InitOf(t) ==
    /\ traffic = t
    /\ now = 0
    /\ m = << >>
    /\ heap = << >>
    /\ Channel = << >>
    /\ pc = [p \in Procs |-> "idle"]
    /\ req = [p \in Procs |-> NoRequest]
    /\ loc = [p \in Procs |-> NoLocals]
    /\ resp = [p \in Procs |-> NoResponse]
    /\ prior = [p \in Procs |-> {}]
    /\ exited = FALSE

Init == \E t \in Traffics : InitOf(t)

Ended(p) == pc[p] \in {"done", "panicked"}

\* the handler returned after writing `status` and `body`
Respond(p, status, body) ==
    /\ pc' = [pc EXCEPT ![p] = "done"]
    /\ resp' = [resp EXCEPT ![p] = [status |-> status, body |-> body]]

\* a nil pointer was dereferenced: net/http recovers the panic and drops the
\* connection; nothing is written
Panic(p) ==
    /\ pc' = [pc EXCEPT ![p] = "panicked"]
    /\ resp' = resp

\* s.Lock() / s.RLock() in Get, Put, Add, Remove and Purge.  The methods are
\* declared on OAuthSessions, not *OAuthSessions, so each call locks the copy
\* of the RWMutex made for that call: it never waits for another goroutine.
LockAcquired(p) == TRUE

\* decoratedHandler: the request r arrives; rand.Float64() decides whether
\* Purge runs before the handler.  Requests are numbered in arrival order.
Arrive(p, r, purge) ==
    /\ ~exited
    /\ pc[p] = "idle"
    /\ p <= traffic.requests
    /\ \A q \in Procs : q < p => pc[q] # "idle"
    /\ pc' = [pc EXCEPT ![p] = IF purge THEN "PurgeScan" ELSE "Handler"]
    /\ req' = [req EXCEPT ![p] = r]
    /\ prior' = [prior EXCEPT ![p] =
                    {q \in Procs : /\ Ended(q)
                                   /\ r.kind # "start"
                                   /\ req[q].kind \in {"callback", "poll"}
                                   /\ req[q].sid = r.sid}]
    /\ UNCHANGED <<traffic, now, m, heap, Channel, loc, resp, exited>>

ArriveStart(p) ==
    \E app \in traffic.apps, purge \in traffic.purge :
        Arrive(p, [NoRequest EXCEPT !.kind = "start", !.app = app], purge)

ArriveCallback(p) ==
    \E sid \in traffic.sids, verifier \in traffic.verifiers, purge \in traffic.purge :
        Arrive(p, [NoRequest EXCEPT !.kind = "callback", !.sid = sid,
                                    !.verifier = verifier], purge)

ArrivePoll(p) ==
    \E sid \in traffic.sids, wait \in traffic.waits, purge \in traffic.purge :
        Arrive(p, [NoRequest EXCEPT !.kind = "poll", !.sid = sid, !.wait = wait], purge)

\* OAuthSessions.Purge, up to the end of the first loop.  With nothing stale
\* the second loop has nothing to do and decoratedHandler calls h(w, r).
PurgeScan(p) ==
    /\ ~exited
    /\ pc[p] = "PurgeScan"
    /\ LockAcquired(p)
    /\ IF PurgeDereferencesNil
       THEN /\ Panic(p)
            /\ loc' = loc
       ELSE IF StaleKeys(now) = {}
       THEN /\ loc' = loc
            /\ pc' = [pc EXCEPT ![p] = "Handler"]
            /\ resp' = resp
       ELSE /\ loc' = [loc EXCEPT ![p].stale = StaleKeys(now), ![p].now = now]
            /\ pc' = [pc EXCEPT ![p] = "PurgeDelete"]
            /\ resp' = resp
    /\ UNCHANGED <<traffic, now, m, heap, Channel, req, prior, exited>>

\* OAuthSessions.Purge, the second loop; then decoratedHandler calls h(w, r)
PurgeDelete(p) ==
    /\ ~exited
    /\ pc[p] = "PurgeDelete"
    /\ m' = MapDelete(m, loc[p].stale)
    /\ loc' = [loc EXCEPT ![p].stale = {}, ![p].now = 0]
    /\ pc' = [pc EXCEPT ![p] = "Handler"]
    /\ UNCHANGED <<traffic, now, heap, Channel, req, resp, prior, exited>>

\* handleOAuthStart, up to the call of AllocateId
StartEnter(p) ==
    /\ ~exited
    /\ pc[p] = "Handler"
    /\ req[p].kind = "start"
    /\ IF Len(req[p].app) = 0
       THEN Respond(p, 400, <<"'app' paramater missing">>)
       ELSE IF ~ConsumerKnown(req[p].app)
       THEN Respond(p, 404, <<"invalid app: ", req[p].app>>)
       ELSE /\ pc' = [pc EXCEPT ![p] = "AddCheck"]
            /\ resp' = resp
    /\ UNCHANGED <<traffic, now, m, heap, Channel, req, loc, prior, exited>>

\* AllocateId: sid := randomString(...); Add(sid, nil) up to its test of s.m[k].
\* When the key exists Add returns false and AllocateId draws again.
AddCheck(p) ==
    /\ ~exited
    /\ pc[p] = "AddCheck"
    /\ LockAcquired(p)
    /\ \E sid \in traffic.ids :
        IF AddExists(sid)
        THEN UNCHANGED <<loc, pc>>
        ELSE /\ loc' = [loc EXCEPT ![p].sid = sid]
             /\ pc' = [pc EXCEPT ![p] = "AddInsert"]
    /\ UNCHANGED <<traffic, now, m, heap, Channel, req, resp, prior, exited>>

\* Add: s.m[k] = v with v = nil; return true; AllocateId returns sid and
\* handleOAuthStart calls consumer.GetRequestTokenAndUrl
AddInsert(p) ==
    /\ ~exited
    /\ pc[p] = "AddInsert"
    /\ m' = MapSet(m, loc[p].sid, NilSession)
    /\ pc' = [pc EXCEPT ![p] = "Begin"]
    /\ UNCHANGED <<traffic, now, heap, Channel, req, loc, resp, prior, exited>>

\* handleOAuthStart: GetRequestTokenAndUrl answers with an error, and the
\* handler answers 500
BeginFails(p) ==
    /\ ~exited
    /\ pc[p] = "Begin"
    /\ \E e \in UpstreamErrors : Respond(p, 500, <<e>>)
    /\ UNCHANGED <<traffic, now, m, heap, Channel, req, loc, prior, exited>>

\* handleOAuthStart: GetRequestTokenAndUrl answers with a request token;
\* oauthSessions.Put(sid, makeOAuthSession(...)) and the answer
Put(p) ==
    /\ ~exited
    /\ pc[p] = "Begin"
    /\ LockAcquired(p)
    /\ \E requestToken \in RequestTokens :
         heap' = Append(heap, makeOAuthSession(loc[p].sid, req[p].app, requestToken, now))
    /\ Channel' = Append(Channel, 0)
    /\ m' = MapSet(m, loc[p].sid, Len(heap) + 1)
    /\ loc' = [loc EXCEPT ![p].session = Len(heap) + 1]
    /\ Respond(p, 200, <<loc[p].sid, "authorize-url">>)
    /\ UNCHANGED <<traffic, now, req, prior, exited>>

\* handleOAuthCallback, up to the test of oauth_verifier
CallbackEnter(p) ==
    /\ ~exited
    /\ pc[p] = "Handler"
    /\ req[p].kind = "callback"
    /\ LockAcquired(p)
    /\ IF Len(req[p].sid) = 0
       THEN /\ Respond(p, 400, <<"'sid' missing">>)
            /\ loc' = loc
       ELSE IF ~Get(req[p].sid).ok
       THEN /\ Respond(p, 404, <<"invalid session ID: ", req[p].sid>>)
            /\ loc' = loc
       ELSE IF Get(req[p].sid).v = NilSession
       THEN \* session.SetErrorf(...) or session.Consumer with session == nil
            /\ Panic(p)
            /\ loc' = loc
       ELSE /\ loc' = [loc EXCEPT ![p].sid = req[p].sid,
                                  ![p].session = Get(req[p].sid).v]
            /\ pc' = [pc EXCEPT ![p] = IF Len(req[p].verifier) = 0
                                       THEN "MissingVerifier" ELSE "Authorize"]
            /\ resp' = resp
    /\ UNCHANGED <<traffic, now, m, heap, Channel, req, prior, exited>>

\* handleOAuthCallback: session.SetErrorf("oauth_verifier not found in callback
\* request"), up to the send on the channel
\* (loc.now is the time.Now() the setter assigns to UpdatedAt of its receiver)
MissingVerifier(p) ==
    /\ ~exited
    /\ pc[p] = "MissingVerifier"
    /\ LET h == loc[p].session
           e == <<"oauth_verifier not found in callback request">>
       IN  /\ heap' = [heap EXCEPT ![h] = ValueReceiver(heap[h], SetError(heap[h], e, now))]
           /\ loc' = [loc EXCEPT ![p].err = e, ![p].status = 403, ![p].now = now]
           /\ pc' = [pc EXCEPT ![p] = "Send"]
    /\ UNCHANGED <<traffic, now, m, Channel, req, resp, prior, exited>>

\* handleOAuthCallback: session.Consumer.AuthorizeToken answers, then
\* SetErrorf("cannot obtain access token: %v", err) or SetAccessToken(accessToken),
\* up to the send on the channel
Authorize(p) ==
    /\ ~exited
    /\ pc[p] = "Authorize"
    /\ LET h == loc[p].session
       IN  \/ \E u \in UpstreamErrors :
                LET e == <<"cannot obtain access token: ", u>>
                IN  /\ heap' = [heap EXCEPT
                                  ![h] = ValueReceiver(heap[h], SetError(heap[h], e, now))]
                    /\ loc' = [loc EXCEPT ![p].err = e, ![p].status = 500, ![p].now = now]
                    /\ pc' = [pc EXCEPT ![p] = "Send"]
           \/ \E a \in AccessTokens :
                /\ heap' = [heap EXCEPT
                              ![h] = ValueReceiver(heap[h], SetAccessToken(heap[h], a, now))]
                /\ loc' = [loc EXCEPT ![p].accessToken = a, ![p].status = 200,
                                           ![p].now = now]
                /\ pc' = [pc EXCEPT ![p] = "Send"]
    /\ UNCHANGED <<traffic, now, m, Channel, req, resp, prior, exited>>

\* the answer of handleOAuthCallback once the setter has returned
CallbackBody(status) ==
    IF status = 403 THEN <<"no oauth_verifier found">>
    ELSE IF status = 500 THEN <<"cannot obtain access token">>
    ELSE << >>

\* SetAccessToken / SetError: `s.Channel <- true`.  The channel holds one
\* signal; the send waits while it is full.  Then the handler answers.
Send(p) ==
    /\ ~exited
    /\ pc[p] = "Send"
    /\ IF loc[p].status = 200 \/ SetErrorSignals(loc[p].err)
       THEN /\ Channel[loc[p].session] < ChannelCapacity
            /\ Channel' = [Channel EXCEPT ![loc[p].session] = @ + 1]
       ELSE Channel' = Channel
    /\ Respond(p, loc[p].status, CallbackBody(loc[p].status))
    /\ UNCHANGED <<traffic, now, m, heap, req, loc, prior, exited>>

\* handleOAuthPoll, up to `start := time.Now().Unix()`
PollEnter(p) ==
    /\ ~exited
    /\ pc[p] = "Handler"
    /\ req[p].kind = "poll"
    /\ LockAcquired(p)
    /\ IF Len(req[p].sid) = 0
       THEN /\ Respond(p, 400, <<"'sid' missing">>)
            /\ loc' = loc
       ELSE IF ~Get(req[p].sid).ok
       THEN /\ Respond(p, 404, <<"invalid session ID: ", req[p].sid>>)
            /\ loc' = loc
       ELSE IF PollWaitTime(req[p].wait).invalid
       THEN /\ Respond(p, 400, <<"invalid wait value: ">> \o req[p].wait)
            /\ loc' = loc
       ELSE /\ loc' = [loc EXCEPT ![p].sid = req[p].sid,
                                  ![p].session = Get(req[p].sid).v,
                                  ![p].waitTime = PollWaitTime(req[p].wait).waitTime,
                                  ![p].start = now]
            /\ pc' = [pc EXCEPT ![p] = "PollCheck"]
            /\ resp' = resp
    /\ UNCHANGED <<traffic, now, m, heap, Channel, req, prior, exited>>

\* handleOAuthPoll: one pass of the loop, up to `<-session.Channel`
PollCheck(p) ==
    /\ ~exited
    /\ pc[p] = "PollCheck"
    /\ LET h == loc[p].session
       IN  IF h = NilSession
           THEN Panic(p)      \* session.AccessToken with session == nil
           ELSE IF heap[h].AccessToken # NilToken
           THEN Respond(p, 200, heap[h].AccessToken)
           ELSE IF heap[h].Error # NilError
           THEN Respond(p, 200, <<"error: ">> \o heap[h].Error)
           ELSE IF WaitExceeded(now, loc[p].start, loc[p].waitTime)
           THEN Respond(p, 100, << >>)
           ELSE /\ pc' = [pc EXCEPT ![p] = "PollRecv"]
                /\ resp' = resp
    /\ UNCHANGED <<traffic, now, m, heap, Channel, req, loc, prior, exited>>

\* PollRecv for a poll that marks the session as used when it is woken
\* (session.UpdatedAt = time.Now() after the receive)
PollRecvTouching(p) ==
    /\ ~exited
    /\ pc[p] = "PollRecv"
    /\ Channel[loc[p].session] > 0
    /\ Channel' = [Channel EXCEPT ![loc[p].session] = @ - 1]
    /\ heap' = [heap EXCEPT ![loc[p].session].UpdatedAt = now]
    /\ pc' = [pc EXCEPT ![p] = "PollCheck"]
    /\ UNCHANGED <<traffic, now, m, req, loc, resp, prior, exited>>

\* handleOAuthPoll: `<-session.Channel` takes one signal, waiting for it
PollRecv(p) ==
    /\ ~exited
    /\ pc[p] = "PollRecv"
    /\ Channel[loc[p].session] > 0
    /\ Channel' = [Channel EXCEPT ![loc[p].session] = @ - 1]
    /\ pc' = [pc EXCEPT ![p] = "PollCheck"]
    /\ UNCHANGED <<traffic, now, m, heap, req, loc, resp, prior, exited>>

\* time passes
Tick ==
    /\ ~exited
    /\ \E t \in traffic.times : t > now /\ now' = t
    /\ UNCHANGED <<traffic, m, heap, Channel, pc, req, loc, resp, prior, exited>>

\* the goroutine's next statement reads the map s.m
MapReader(p) ==
    \/ pc[p] \in {"AddCheck", "PurgeScan"}
    \/ pc[p] = "Handler" /\ req[p].kind \in {"callback", "poll"} /\ Len(req[p].sid) > 0

\* the goroutine's next statement writes the map s.m
MapWriter(p) == pc[p] \in {"AddInsert", "Begin", "PurgeDelete"}

\* Two goroutines use the map at once and one of them writes it: nothing
\* orders them (LockAcquired), and the Go runtime may notice and end the
\* process ("fatal error: concurrent map writes", "concurrent map read and
\* map write").  All state of the process is lost.
FatalError ==
    /\ ~exited
    /\ \E p, q \in Procs : p # q /\ MapWriter(p) /\ (MapWriter(q) \/ MapReader(q))
    /\ exited' = TRUE
    /\ traffic' = traffic
    /\ now' = 0
    /\ m' = << >>
    /\ heap' = << >>
    /\ Channel' = << >>
    /\ pc' = [p \in Procs |-> "idle"]
    /\ req' = [p \in Procs |-> NoRequest]
    /\ loc' = [p \in Procs |-> NoLocals]
    /\ resp' = [p \in Procs |-> NoResponse]
    /\ prior' = [p \in Procs |-> {}]

Next ==
    \/ \E p \in Procs : ArriveStart(p)
    \/ \E p \in Procs : ArriveCallback(p)
    \/ \E p \in Procs : ArrivePoll(p)
    \/ \E p \in Procs : PurgeScan(p)
    \/ \E p \in Procs : PurgeDelete(p)
    \/ \E p \in Procs : StartEnter(p)
    \/ \E p \in Procs : AddCheck(p)
    \/ \E p \in Procs : AddInsert(p)
    \/ \E p \in Procs : BeginFails(p)
    \/ \E p \in Procs : Put(p)
    \/ \E p \in Procs : CallbackEnter(p)
    \/ \E p \in Procs : MissingVerifier(p)
    \/ \E p \in Procs : Authorize(p)
    \/ \E p \in Procs : Send(p)
    \/ \E p \in Procs : PollEnter(p)
    \/ \E p \in Procs : PollCheck(p)
    \/ \E p \in Procs : PollRecv(p)
    \/ Tick
    \/ FatalError

Spec == Init /\ [][Next]_vars

\* Long-poll traffic, with the runtime not noticing the unordered uses of
\* the map.  Every goroutine that can run does run in the end (the Go
\* scheduler); nothing makes a client send a request.
Step(p) ==
    \/ StartEnter(p) \/ AddCheck(p) \/ AddInsert(p) \/ BeginFails(p) \/ Put(p)
    \/ CallbackEnter(p) \/ Authorize(p) \/ Send(p)
    \/ PollEnter(p) \/ PollCheck(p) \/ PollRecv(p)

LongPollNext ==
    \/ \E p \in Procs : ArriveStart(p)
    \/ \E p \in Procs : ArriveCallback(p)
    \/ \E p \in Procs : ArrivePoll(p)
    \/ \E p \in Procs : Step(p)

LongPollSpec ==
    /\ InitOf(LongPollTraffic)
    /\ [][LongPollNext]_vars
    /\ \A p \in Procs : WF_vars(Step(p))

\* Purge traffic.  A goroutine ends when its handler has returned or
\* panicked, and the next request is served by a new one: requests arrive
\* for as long as the server runs.
Depart(p) ==
    /\ ~exited
    /\ Ended(p)
    /\ pc' = [pc EXCEPT ![p] = "idle"]
    /\ req' = [req EXCEPT ![p] = NoRequest]
    /\ loc' = [loc EXCEPT ![p] = NoLocals]
    /\ resp' = [resp EXCEPT ![p] = NoResponse]
    /\ prior' = [q \in Procs |-> IF q = p THEN {} ELSE prior[q] \ {p}]
    /\ UNCHANGED <<traffic, now, m, heap, Channel, exited>>

\* the starts being served
StartsInFlight == {q \in Procs : req[q].kind = "start" /\ ~Ended(q)}

\* a start can still be served: randomString has an unused id left to draw
\* for it, and fewer than PurgeSessions sessions were created or are underway
StartAdmitted ==
    /\ Cardinality(DOMAIN m) + Cardinality(StartsInFlight) < Cardinality(traffic.ids)
    /\ Len(heap) + Cardinality(StartsInFlight) < PurgeSessions

\* a start arrives while one can be served
ArriveStartAdmitted(p) == StartAdmitted /\ ArriveStart(p)

\* decoratedHandler: a poll arrives and rand.Float64() <= 0.1, Purge runs
ArrivePollPurging(p) ==
    \E sid \in traffic.sids, wait \in traffic.waits :
        Arrive(p, [NoRequest EXCEPT !.kind = "poll", !.sid = sid, !.wait = wait], TRUE)

PurgeStep(p) ==
    \/ PurgeScan(p) \/ PurgeDelete(p)
    \/ StartEnter(p) \/ AddCheck(p) \/ AddInsert(p) \/ BeginFails(p) \/ Put(p)
    \/ PollEnter(p) \/ PollCheck(p)
    \/ Depart(p)

PurgeNext ==
    \/ \E p \in Procs : ArriveStartAdmitted(p)
    \/ \E p \in Procs : ArrivePoll(p)
    \/ \E p \in Procs : PurgeScan(p)
    \/ \E p \in Procs : PurgeDelete(p)
    \/ \E p \in Procs : StartEnter(p)
    \/ \E p \in Procs : AddCheck(p)
    \/ \E p \in Procs : AddInsert(p)
    \/ \E p \in Procs : BeginFails(p)
    \/ \E p \in Procs : Put(p)
    \/ \E p \in Procs : PollEnter(p)
    \/ \E p \in Procs : PollCheck(p)
    \/ \E p \in Procs : Depart(p)
    \/ Tick

\* Every goroutine that can run does run in the end, and again and again a
\* request arrives for which the purge fraction is drawn; the runtime does not
\* notice the unordered uses of the map.
PurgeSpec ==
    /\ InitOf(PurgeTraffic)
    /\ [][PurgeNext]_vars
    /\ \A p \in Procs : WF_vars(PurgeStep(p))
    /\ SF_vars(\E p \in Procs : ArrivePollPurging(p))

\* Eviction traffic, with the runtime not noticing the unordered uses of
\* the map.  Every goroutine that can run does run in the end; nothing makes
\* a client send a request or the clock advance.
EvictStep(p) == Step(p) \/ PurgeScan(p) \/ PurgeDelete(p)

EvictNext ==
    \/ \E p \in Procs : ArriveStart(p)
    \/ \E p \in Procs : ArriveCallback(p)
    \/ \E p \in Procs : ArrivePoll(p)
    \/ \E p \in Procs : EvictStep(p)
    \/ Tick

EvictSpec ==
    /\ InitOf(EvictTraffic)
    /\ [][EvictNext]_vars
    /\ \A p \in Procs : WF_vars(EvictStep(p))

\* ------------------------------------------------------------------ claims

IsStart(p)    == req[p].kind = "start"
IsCallback(p) == req[p].kind = "callback"
IsPoll(p)     == req[p].kind = "poll"

\* the session object carries a result
Settled(s) == s.AccessToken # NilToken \/ s.Error # NilError

\* the callback p has run its setter (SetAccessToken or SetError) on session h
HasSet(p, h) ==
    IsCallback(p) /\ pc[p] \in {"Send", "done"} /\ loc[p].session = h /\ h # NilSession

\* the callback p has returned from its setter on session h
HasResolved(p, h) ==
    IsCallback(p) /\ pc[p] = "done" /\ loc[p].session = h /\ h # NilSession

\* the poll p looked the session h up and is in, or through, its loop
PollsSession(p, h) == IsPoll(p) /\ loc[p].session = h /\ h # NilSession

\* the wait parameter is a non-negative number of seconds
WaitsSeconds(p) == ~Atoi(req[p].wait).err /\ Atoi(req[p].wait).val >= 0

\* C1: no session object ever holds both an AccessToken and an Error, and a
\* session object that holds a result holds the same AccessToken and the same
\* Error after every step, whatever callbacks and polls are served.
C1_ResultSetOnce ==
    [][\A h \in DOMAIN heap' :
          /\ ~(heap'[h].AccessToken # NilToken /\ heap'[h].Error # NilError)
          /\ (h \in DOMAIN heap /\ Settled(heap[h]))
                => /\ heap'[h].AccessToken = heap[h].AccessToken
                   /\ heap'[h].Error = heap[h].Error]_vars

\* two callbacks for one session have both run their setters, one
\* SetAccessToken and the other SetError
C1_Witness ==
    \E p, q \in Procs : \E h \in DOMAIN heap :
        /\ HasSet(p, h) /\ loc[p].status = 200
        /\ HasSet(q, h) /\ loc[q].status \in {403, 500}

\* C2: when two or more polls with wait=true are blocked on a session and a
\* callback for it is sending its completion signal after SetAccessToken,
\* each of the blocked polls eventually returns the credential.
C2_NoLostWakeups ==
    \A p \in Procs : \A h \in 1..LongPollRequests :
        (/\ h \in DOMAIN heap
         /\ PollsSession(p, h) /\ req[p].wait = WaitTrue /\ pc[p] = "PollRecv"
         /\ \E p2 \in Procs \ {p} :
                PollsSession(p2, h) /\ req[p2].wait = WaitTrue /\ pc[p2] = "PollRecv"
         /\ \E q \in Procs : HasSet(q, h) /\ pc[q] = "Send" /\ loc[q].status = 200)
        ~> (pc[p] = "done" /\ resp[p].status = 200)

\* C3: a poll that arrived after a callback for its session had returned
\* from SetAccessToken(tok, sec), and that found the session in the store,
\* answers 200 with exactly (tok, sec).
C3_EndToEnd ==
    \A p, q \in Procs : \A h \in DOMAIN heap :
        (/\ PollsSession(p, h) /\ pc[p] = "done"
         /\ HasResolved(q, h) /\ resp[q].status = 200 /\ q \in prior[p])
        => resp[p] = [status |-> 200, body |-> loc[q].accessToken]

\* C4: two starts that hold an id returned by AllocateId at the same time
\* (neither has stored its session or failed yet) hold different ids.
C4_AllocatedIdsDistinct ==
    \A p, q \in Procs :
        (p # q /\ pc[p] = "Begin" /\ pc[q] = "Begin") => loc[p].sid # loc[q].sid

\* C5: a poll with wait=N, N a non-negative number of seconds, answers 100 no
\* earlier than N seconds after the handler read its start time.
C5_WaitSecondsHonoured ==
    [][\A p \in Procs :
          (/\ IsPoll(p) /\ WaitsSeconds(p)
           /\ pc[p] = "PollCheck" /\ pc'[p] = "done" /\ resp'[p].status = 100)
          => now - loc[p].start >= Atoi(req[p].wait).val]_vars

\* C6: a poll with an absent or empty wait that found a session never waits
\* on the session's channel, and when it has returned and the session holds
\* no result its answer is 100.
C6_NoWaitNeverBlocks ==
    \A p \in Procs : \A h \in DOMAIN heap :
        (PollsSession(p, h) /\ Len(req[p].wait) = 0)
        => /\ pc[p] \in {"PollCheck", "done"}
           /\ (pc[p] = "done" /\ ~Settled(heap[h])) => resp[p].status = 100

\* a poll without wait has answered 100 for a session that holds no result,
\* after time has passed since it started
C6_Witness ==
    \E p \in Procs : \E h \in DOMAIN heap :
        /\ PollsSession(p, h) /\ Len(req[p].wait) = 0
        /\ pc[p] = "done" /\ resp[p].status = 100 /\ ~Settled(heap[h])
        /\ now > loc[p].start

\* C7: a poll with wait=true never answers 100, and when it has returned
\* from its loop the session holds a result and the answer is 200 with the
\* credential or with the error.
C7_WaitTrueNoDeadline ==
    \A p \in Procs :
        (IsPoll(p) /\ req[p].wait = WaitTrue)
        => /\ resp[p].status # 100
           /\ \A h \in DOMAIN heap :
                (PollsSession(p, h) /\ pc[p] = "done")
                => /\ Settled(heap[h])
                   /\ resp[p].status = 200
                   /\ resp[p].body \in {heap[h].AccessToken, <<"error: ">> \o heap[h].Error}

\* a poll with wait=true is waiting on the channel an hour after it started,
\* and a callback for its session has sent its signal and returned
C7_Witness ==
    \E p, q \in Procs : \E h \in DOMAIN heap :
        /\ PollsSession(p, h) /\ req[p].wait = WaitTrue /\ pc[p] = "PollRecv"
        /\ now - loc[p].start >= maxAge
        /\ HasResolved(q, h)

\* C8: when a callback for a session has returned from its setter before a
\* second callback for the same session arrived, and the second has run its
\* setter too, the session holds the result the first one set.
C8_FirstCallbackWins ==
    \A q, q2 \in Procs : \A h \in DOMAIN heap :
        (HasResolved(q, h) /\ HasSet(q2, h) /\ q \in prior[q2])
        => /\ heap[h].AccessToken = loc[q].accessToken
           /\ heap[h].Error = loc[q].err

\* the instant `now := time.Now()` of the Purge pass the request p is in
PurgeTime(p) == IF pc[p] = "PurgeScan" THEN now ELSE loc[p].now

\* C9 (the sessions to remove): when a Purge pass ends, no session older
\* than maxAge at the instant of the pass is left in the store.
C9_PurgeRemovesOld ==
    [][\A p \in Procs :
          (pc[p] \in {"PurgeScan", "PurgeDelete"} /\ pc'[p] \in {"Handler", "panicked"})
          => \A k \in DOMAIN m' :
                m'[k] # NilSession => ~(PurgeTime(p) - heap'[m'[k]].UpdatedAt > maxAge)]_vars

\* C10: the handler step of a poll whose sid is an id the store does not
\* hold answers 404 and leaves the store, the sessions and their channels as
\* they were; the poll is over, it never waits.
C10_UnknownSession ==
    [][\A p \in Procs :
          (/\ IsPoll(p) /\ pc[p] = "Handler" /\ pc'[p] \in {"done", "panicked", "PollCheck"}
           /\ req[p].sid \in Ids /\ req[p].sid \notin DOMAIN m)
          => /\ pc'[p] = "done"
             /\ resp'[p].status = 404
             /\ m' = m /\ heap' = heap /\ Channel' = Channel]_vars

\* a poll for an id the store does not hold has been answered 404 while the
\* store holds a session under another id
C10_Witness ==
    \E p \in Procs :
        /\ IsPoll(p) /\ pc[p] = "done" /\ resp[p].status = 404
        /\ req[p].sid \in Ids /\ req[p].sid \notin DOMAIN m
        /\ \E k \in DOMAIN m : m[k] # NilSession

\* C11: when GetRequestTokenAndUrl fails in a start, the step that answers
\* the failure leaves no entry, session or placeholder, in the store under
\* the id AllocateId returned to that start.
C11_FailedStartLeavesNoEntry ==
    [][\A p \in Procs :
          (IsStart(p) /\ pc[p] = "Begin" /\ pc'[p] = "done" /\ resp'[p].status = 500)
          => loc[p].sid \notin DOMAIN m']_vars

\* C12: the callback step that finds no oauth_verifier on a session holding
\* no result keeps the handler's answer at 403, does not call AuthorizeToken,
\* and leaves the stored session holding the error "oauth_verifier not found
\* in callback request" and no AccessToken.
C12_MissingVerifierFails ==
    [][\A p \in Procs :
          (/\ IsCallback(p) /\ pc[p] = "MissingVerifier" /\ pc'[p] # pc[p]
           /\ ~Settled(heap[loc[p].session]))
          => /\ pc'[p] = "Send" /\ loc'[p].status = 403
             /\ heap'[loc[p].session].Error = loc'[p].err
             /\ heap'[loc[p].session].Error # NilError
             /\ heap'[loc[p].session].AccessToken = NilToken]_vars

\* C13: a poll that arrived after the only callback for its session had
\* answered the failure of AuthorizeToken, and that has returned, answered
\* 200 with the body "error: <message>" of that failure.
C13_UpstreamErrorReachesPoll ==
    \A p, q \in Procs : \A h \in DOMAIN heap :
        (/\ PollsSession(p, h) /\ pc[p] = "done"
         /\ HasResolved(q, h) /\ resp[q].status = 500 /\ q \in prior[p]
         /\ \A q2 \in Procs \ {q} : ~HasSet(q2, h))
        => resp[p] = [status |-> 200, body |-> <<"error: ">> \o loc[q].err]

\* the callback p has run its setter up to `s.Channel <- true` and the
\* channel is full: the send, and with it the handler, waits
SendBlocks(p) ==
    /\ pc[p] = "Send"
    /\ loc[p].status = 200 \/ SetErrorSignals(loc[p].err)
    /\ Channel[loc[p].session] >= ChannelCapacity

\* C14: no callback ever waits in its setter's send on the session's
\* channel, whether or not a poll is waiting, an earlier signal is still
\* buffered, or another callback for the same id ran before.
C14_CallbackNeverSuspends ==
    \A p \in Procs : IsCallback(p) => ~SendBlocks(p)

\* the characters w spell a decimal integer, with or without a sign
IsNumeral(w) ==
    LET digits == IF Len(w) > 0 /\ w[1] \in {"+", "-"} THEN Tail(w) ELSE w
    IN  Len(digits) > 0 /\ \A i \in 1..Len(digits) : digits[i] \in DigitChars

\* the wait parameter w is neither empty, nor "true", nor a non-negative
\* integer: it is no number, or a number below zero
BadWait(w) ==
    /\ Len(w) > 0
    /\ w # WaitTrue
    /\ ~IsNumeral(w) \/ (w[1] = "-" /\ DecimalValue(Tail(w), 0) > 0)

\* C15: the handler step of a poll for an id the store holds, with a wait
\* that is negative or not a number, answers 400 and ends the poll there (it
\* never reaches the loop or the channel), leaving the store, the sessions
\* and their channels as they were.
C15_BadWaitRejected ==
    [][\A p \in Procs :
          (/\ IsPoll(p) /\ pc[p] = "Handler" /\ pc'[p] \in {"done", "panicked", "PollCheck"}
           /\ req[p].sid \in DOMAIN m /\ BadWait(req[p].wait))
          => /\ pc'[p] = "done"
             /\ resp'[p].status = 400
             /\ m' = m /\ heap' = heap /\ Channel' = Channel]_vars

\* a poll with wait=-1 for a stored session has been answered 400
C15_Witness ==
    \E p \in Procs :
        /\ IsPoll(p) /\ pc[p] = "done" /\ resp[p].status = 400
        /\ req[p].wait = <<"-", "1">>
        /\ req[p].sid \in DOMAIN m /\ m[req[p].sid] # NilSession

\* C16: a poll that arrived after a callback for its session had resolved it
\* (returned from SetAccessToken or SetError) never waits on the session's
\* channel, whatever its wait parameter, and when it has returned its answer
\* is 200.
C16_ResolvedPollImmediate ==
    \A p, q \in Procs : \A h \in DOMAIN heap :
        (PollsSession(p, h) /\ HasResolved(q, h) /\ q \in prior[p])
        => /\ pc[p] # "PollRecv"
           /\ pc[p] = "done" => resp[p].status = 200

\* C17: a callback that arrived after another callback for the same session
\* had returned from its setter sends nothing on the session's channel.
C17_SignalSentOnce ==
    [][\A p \in Procs :
          (/\ IsCallback(p) /\ pc[p] = "Send" /\ pc'[p] = "done"
           /\ \E q \in prior[p] : HasResolved(q, loc[p].session))
          => Channel' = Channel]_vars

\* C19: when a single poll with wait=true has found its session without a
\* result and is about to receive from the channel, nothing is buffered yet,
\* and a callback has run SetAccessToken up to its send, the poll eventually
\* answers 200 (unless a second poll arrives).
C19_CheckThenWait ==
    \A p \in Procs : \A h \in 1..LongPollRequests :
        (/\ h \in DOMAIN heap
         /\ PollsSession(p, h) /\ req[p].wait = WaitTrue /\ pc[p] = "PollRecv"
         /\ Channel[h] = 0
         /\ \A p2 \in Procs \ {p} : ~IsPoll(p2)
         /\ \E q \in Procs : HasSet(q, h) /\ pc[q] = "Send" /\ loc[q].status = 200)
        ~> \/ pc[p] = "done" /\ resp[p].status = 200
           \/ \E p2 \in Procs \ {p} : IsPoll(p2)

\* C18: when a poll has answered 200 and another poll for the same session
\* arrived after that answer and has returned, the second answered 200 with
\* the same body.
C18_ResolutionLinearizable ==
    \A p, p2 \in Procs : \A h \in DOMAIN heap :
        (/\ PollsSession(p, h) /\ pc[p] = "done" /\ resp[p].status = 200
         /\ PollsSession(p2, h) /\ pc[p2] = "done" /\ p \in prior[p2])
        => resp[p2] = resp[p]

\* C20: a stored session that is older than maxAge is eventually taken out
\* of the store, when requests keep arriving and the purge fraction keeps
\* being drawn.
C20_IdleSessionsReclaimed ==
    \A k \in Ids : \A h \in 1..PurgeSessions :
        (/\ k \in DOMAIN m /\ m[k] = h /\ h \in DOMAIN heap
         /\ now - heap[h].UpdatedAt > maxAge)
        ~> ~(k \in DOMAIN m /\ m[k] = h)

\* C21: the handler step of a callback whose sid is an id the store does not
\* hold answers 404 and ends the callback there: AuthorizeToken is not
\* called, nothing is sent on any channel, and the store and the sessions are
\* as they were.
C21_CallbackUnknownSession ==
    [][\A p \in Procs :
          (/\ IsCallback(p) /\ pc[p] = "Handler"
           /\ pc'[p] \in {"done", "panicked", "MissingVerifier", "Authorize"}
           /\ req[p].sid \in Ids /\ req[p].sid \notin DOMAIN m)
          => /\ pc'[p] = "done"
             /\ resp'[p].status = 404
             /\ m' = m /\ heap' = heap /\ Channel' = Channel]_vars

\* a callback for an id the store does not hold has been answered 404 while
\* the store holds a session under another id
C21_Witness ==
    \E p \in Procs :
        /\ IsCallback(p) /\ pc[p] = "done" /\ resp[p].status = 404
        /\ req[p].sid \in Ids /\ req[p].sid \notin DOMAIN m
        /\ \E k \in DOMAIN m : m[k] # NilSession

\* C22: the handler step of a start without app answers 400, that of a start
\* whose app is not one of oauthConsumers answers 404; either ends the start
\* there, with no id drawn, GetRequestTokenAndUrl not called, and the store,
\* the sessions and their channels as they were.
C22_StartRejected ==
    [][\A p \in Procs :
          (/\ IsStart(p) /\ pc[p] = "Handler" /\ pc'[p] \in {"done", "panicked", "AddCheck"}
           /\ req[p].app \notin Consumers)
          => /\ pc'[p] = "done"
             /\ resp'[p].status = (IF req[p].app = "" THEN 400 ELSE 404)
             /\ loc'[p].sid = ""
             /\ m' = m /\ heap' = heap /\ Channel' = Channel]_vars

\* a start without app was answered 400 and a start for an unknown app 404
C22_Witness ==
    \E p, q \in Procs :
        /\ IsStart(p) /\ req[p].app = "" /\ pc[p] = "done" /\ resp[p].status = 400
        /\ IsStart(q) /\ req[q].app = "nope" /\ pc[q] = "done" /\ resp[q].status = 404

\* the goroutine is between s.Lock() and the deferred s.Unlock() of a method
\* that changes the map: Add after its test of s.m[k], Purge after its first
\* loop
InMutation(p) == pc[p] \in {"AddInsert", "PurgeDelete"}

\* C23: no two goroutines are at once inside Add, Put, Remove or Purge
\* between their Lock and Unlock.
C23_MutationsExclusive ==
    \A p, q \in Procs : (p # q /\ InMutation(p)) => ~InMutation(q)

\* C24: while the store holds a session under an id, no step puts another
\* session (or the placeholder) under that id.
C24_IdNotReused ==
    [][\A k \in DOMAIN m :
          (m[k] # NilSession /\ k \in DOMAIN m') => m'[k] = m[k]]_vars

\* C30: a Purge pass never ends in a fault, whatever the store holds.
C30_PurgeNeverFaults ==
    [][\A p \in Procs :
          pc[p] \in {"PurgeScan", "PurgeDelete"} => pc'[p] # "panicked"]_vars

\* C25: when a single poll with wait=true is waiting on the channel of its
\* session and a callback has run SetError (AuthorizeToken failed) up to its
\* send, the poll eventually answers 200 with "error: <message>" (unless a
\* second poll arrives).
C25_BlockedPollGetsFailure ==
    \A p \in Procs :
        (/\ loc[p].session \in DOMAIN heap
         /\ PollsSession(p, loc[p].session) /\ req[p].wait = WaitTrue /\ pc[p] = "PollRecv"
         /\ Channel[loc[p].session] = 0
         /\ \A p2 \in Procs \ {p} : ~IsPoll(p2)
         /\ \E q \in Procs :
                HasSet(q, loc[p].session) /\ pc[q] = "Send" /\ loc[q].status = 500)
        ~> \/ /\ pc[p] = "done" /\ resp[p].status = 200
              /\ resp[p].body \in {<<"error: ", "cannot obtain access token: ", u>> :
                                      u \in UpstreamErrors}
           \/ \E p2 \in Procs \ {p} : IsPoll(p2)

\* C26: a Purge pass keeps every session that a callback resolved (ran
\* SetAccessToken or SetError on) before the pass and less than maxAge
\* seconds before it, however long ago the session was created.
C26_AgeFromResolution ==
    [][\A p \in Procs :
          (pc[p] = "PurgeDelete" /\ pc'[p] = "Handler")
          => \A k \in DOMAIN m : \A q \in Procs :
                (/\ HasResolved(q, m[k])
                 /\ loc[q].now < loc[p].now
                 /\ loc[p].now - loc[q].now < maxAge)
                => k \in DOMAIN m']_vars

\* C27: no step of handleOAuthPoll (the lookup, a pass of the loop, the
\* receive from the channel), for any wait and with any outcome, changes a
\* session object (result, UpdatedAt, Consumer, ...) or the map.
C27_PollOnlyReads ==
    [][\A p \in Procs :
          (/\ IsPoll(p) /\ pc[p] \in {"Handler", "PollCheck", "PollRecv"}
           /\ pc'[p] # pc[p] /\ exited' = exited)
          => m' = m /\ heap' = heap]_vars

\* a poll with wait=true was woken by a callback's signal later than the
\* session was created, and waits again
C27_Witness ==
    \E p, q \in Procs : \E h \in DOMAIN heap :
        /\ PollsSession(p, h) /\ req[p].wait = WaitTrue /\ pc[p] = "PollRecv"
        /\ HasResolved(q, h) /\ Channel[h] = 0
        /\ loc[q].now > heap[h].StartedAt

\* C28: where no Purge runs and no callback was sent, the handler step of a
\* poll without wait, or of a callback, for the id a start has answered with
\* 200 finds a session under that id and goes on with it (the poll to its
\* loop, where it answers 100): it is not answered 404 and does not find nil.
C28_StartStoresPending ==
    [][\A p, s \in Procs :
          (/\ traffic.purge = {FALSE}
           /\ IsStart(s) /\ pc[s] = "done" /\ resp[s].status = 200
           /\ (IsPoll(p) /\ Len(req[p].wait) = 0) \/ IsCallback(p)
           /\ \A q \in Procs \ {p} : ~IsCallback(q)
           /\ req[p].sid = loc[s].sid
           /\ pc[p] = "Handler" /\ pc'[p] \notin {"Handler", "idle"})
          => /\ pc'[p] \in {"PollCheck", "MissingVerifier", "Authorize"}
             /\ loc'[p].session # NilSession]_vars

\* C29: every session stored in the map has the key it is stored under as
\* its Id, and no step changes the Id or the Consumer of a session object.
C29_IdAndConsumerFixed ==
    [][/\ \A k \in DOMAIN m' : m'[k] # NilSession => heap'[m'[k]].Id = k
       /\ \A h \in DOMAIN heap \cap DOMAIN heap' :
             /\ heap'[h].Id = heap[h].Id
             /\ heap'[h].Consumer = heap[h].Consumer]_vars

\* the store holds sessions under two ids, and a callback for one of them has
\* run its setter
C29_Witness ==
    \E k1, k2 \in DOMAIN m : \E q \in Procs :
        /\ k1 # k2 /\ m[k1] # NilSession /\ m[k2] # NilSession
        /\ HasSet(q, m[k1])

\* C31: the handler step of a poll or a callback that finds its sid in the
\* map (Get's ok) does not fault and never goes on with a nil session.
C31_NoHandlerOnPlaceholder ==
    [][\A p \in Procs :
          (/\ IsPoll(p) \/ IsCallback(p)
           /\ pc[p] = "Handler" /\ pc'[p] \notin {"Handler", "idle"}
           /\ Get(req[p].sid).ok)
          => /\ pc'[p] # "panicked"
             /\ pc'[p] \in {"PollCheck", "MissingVerifier", "Authorize"}
                   => loc'[p].session # NilSession]_vars

\* C33: no step of a poll without wait, and no step by which any poll
\* returns, takes a signal from (or otherwise changes) a session's channel.
C33_ReturningPollKeepsSignal ==
    [][\A p \in Procs :
          (/\ IsPoll(p) /\ pc'[p] # pc[p] /\ exited' = exited
           /\ Len(req[p].wait) = 0 \/ pc'[p] = "done")
          => Channel' = Channel]_vars

\* a poll without wait that arrived after a callback for its session had sent
\* its signal has answered, and the signal is still in the channel
C33_Witness ==
    \E p, q \in Procs : \E h \in DOMAIN heap :
        /\ PollsSession(p, h) /\ Len(req[p].wait) = 0 /\ pc[p] = "done"
        /\ HasResolved(q, h) /\ q \in prior[p]
        /\ Channel[h] = 1

\* the session object h is stored in the map
Stored(h) == \E k \in DOMAIN m : m[k] = h

\* C32: a poll with wait=true that waits on the channel of a session Purge
\* has taken out of the store, after a callback for its sid was answered 404,
\* eventually returns.
C32_EvictedPollReleased ==
    \A p \in Procs :
        (/\ loc[p].session \in DOMAIN heap
         /\ PollsSession(p, loc[p].session) /\ req[p].wait = WaitTrue /\ pc[p] = "PollRecv"
         /\ ~Stored(loc[p].session)
         /\ \E q \in Procs :
                /\ IsCallback(q) /\ req[q].sid = req[p].sid
                /\ pc[q] = "done" /\ resp[q].status = 404)
        ~> pc[p] = "done"

====
